---- MODULE Spec2Model ----
(***************************************************************************)
(* A model of CDataFile (include/CDataFile.h): an INI-style store of named *)
(* sections holding ordered key/value entries with comments.               *)
(*                                                                         *)
(* A std::string is a sequence of one-character strings, so that Trim,     *)
(* CompareNoCase, the parser and the serializer work on characters.        *)
(* The object is the record                                                *)
(*   [m_Sections, m_Flags, m_szFileName, m_bDirty]                         *)
(* and every method is an operator from that record (and the arguments)    *)
(* to [this |-> the object afterwards, ret |-> the value returned].        *)
(***************************************************************************)
EXTENDS Integers, Sequences, FiniteSets, TLC

VARIABLES
    m_Sections,     \* SectionList: the ordered list of sections
    m_Flags,        \* long: the settings flags
    m_szFileName,   \* std::string: the file name to write to
    m_bDirty,       \* bool: has the data changed
    last,           \* the last call made on the object and what it returned
    calls           \* the calls still to be made (Unlimited: any number)

vars == <<m_Sections, m_Flags, m_szFileName, m_bDirty, last, calls>>

-----------------------------------------------------------------------------
(* Bounds of the model                                                     *)

MaxSections == 2    \* sections a document may hold
MaxKeys     == 2    \* keys a section may hold
MaxLines    == 3    \* lines of a file handed to the parser

-----------------------------------------------------------------------------
(* Globally defined constants                                              *)

AUTOCREATE_SECTIONS == 2    \* (1L<<1)
AUTOCREATE_KEYS     == 4    \* (1L<<2)

CommentIndicators == <<";", "#">>
EqualIndicators   == <<"=", ":">>
WhiteSpace        == <<" ", "\t", "\n", "\r">>

NULL == 0

\* the key pointer that points at no key
NoKey == <<NULL, NULL>>

Range(s) == {s[i] : i \in DOMAIN s}

Min(S) == CHOOSE x \in S : \A y \in S : x <= y

\* the bit f of the flag word flags is set
HasFlag(flags, f) == (flags \div f) % 2 = 1

\* flags with the bit f set
WithFlag(flags, f) == IF HasFlag(flags, f) THEN flags ELSE flags + f

FlagSettings == {0, AUTOCREATE_SECTIONS, AUTOCREATE_KEYS,
                 AUTOCREATE_SECTIONS + AUTOCREATE_KEYS}

-----------------------------------------------------------------------------
(* Data model                                                              *)

\* st_key(): a key with empty name, value and comment
st_key == [szKey |-> <<>>, szValue |-> <<>>, szComment |-> <<>>]

\* st_section(): a section with empty name and comment and no keys
st_section == [szName |-> <<>>, szComment |-> <<>>, Keys |-> <<>>]

NewKey(k, v, c) == [st_key EXCEPT !.szKey = k, !.szValue = v, !.szComment = c]

NewSection(n, c, keys) ==
    [st_section EXCEPT !.szName = n, !.szComment = c, !.Keys = keys]

-----------------------------------------------------------------------------
(* General purpose utility functions                                       *)

LowerCase == <<"a","b","c","d","e","f","g","h","i","j","k","l","m",
               "n","o","p","q","r","s","t","u","v","w","x","y","z">>
UpperCase == <<"A","B","C","D","E","F","G","H","I","J","K","L","M",
               "N","O","P","Q","R","S","T","U","V","W","X","Y","Z">>

\* the uppercase letter of each lowercase letter
UpperOf ==
    [ch \in {LowerCase[i] : i \in DOMAIN LowerCase} |->
        UpperCase[CHOOSE i \in DOMAIN LowerCase : LowerCase[i] = ch]]

ToUpper(ch) == IF ch \in DOMAIN UpperOf THEN UpperOf[ch] ELSE ch

UpperStr(str) == [i \in DOMAIN str |-> ToUpper(str[i])]

\* 0 when the two strings are equal once both are uppercased (only whether
\* the result is 0 is ever used)
CompareNoCase(str1, str2) == IF UpperStr(str1) = UpperStr(str2) THEN 0 ELSE 1

\* the string from position a to position b (empty when a > b)
Sub(str, a, b) == IF a > b THEN <<>> ELSE SubSeq(str, a, b)

\* Trim: strip the leading and trailing characters found in WhiteSpace
Trim(szStr) ==
    LET keep == {i \in DOMAIN szStr : szStr[i] \notin Range(WhiteSpace)}
    IN  IF keep = {} THEN <<>>
        ELSE Sub(szStr, Min(keep), CHOOSE x \in keep : \A y \in keep : y <= x)

\* the position of the first character of str that is in chars, 0 when none
FindFirstOf(str, chars) ==
    LET hits == {i \in DOMAIN str : str[i] \in Range(chars)}
    IN  IF hits = {} THEN 0 ELSE Min(hits)

-----------------------------------------------------------------------------
(* The object                                                              *)

This == [m_Sections   |-> m_Sections,
         m_Flags      |-> m_Flags,
         m_szFileName |-> m_szFileName,
         m_bDirty     |-> m_bDirty]

Result(this, ret) == [this |-> this, ret |-> ret]

\* the position of the first key of the list named szKey, NULL when none
FindKey(Keys, szKey) ==
    LET hits == {i \in DOMAIN Keys : CompareNoCase(Keys[i].szKey, szKey) = 0}
    IN  IF hits = {} THEN NULL ELSE Min(hits)

\* the mutant of GetSection that compares the names as they are written
GetSectionCase(this, szSection) ==
    LET hits == {i \in DOMAIN this.m_Sections :
                    this.m_Sections[i].szName = szSection}
    IN  IF hits = {} THEN NULL ELSE Min(hits)

\* GetSection: the position of the requested section (if found), NULL otherwise
GetSection(this, szSection) ==
    LET hits == {i \in DOMAIN this.m_Sections :
                    CompareNoCase(this.m_Sections[i].szName, szSection) = 0}
    IN  IF hits = {} THEN NULL ELSE Min(hits)


\* the mutant of GetKey that compares the key names as they are written
GetKeyCase(this, szKey, szSection) ==
    LET pSection == GetSection(this, szSection)
    IN  IF pSection = NULL THEN NoKey
        ELSE LET hits == {i \in DOMAIN this.m_Sections[pSection].Keys :
                             this.m_Sections[pSection].Keys[i].szKey = szKey}
             IN  IF hits = {} THEN NoKey ELSE <<pSection, Min(hits)>>

\* the mutant of GetKey that looks in the global section when the requested
\* section is not found
GetKeyFallsBack(this, szKey, szSection) ==
    LET found    == GetSection(this, szSection)
        pSection == IF found = NULL THEN GetSection(this, <<>>) ELSE found
    IN  IF pSection = NULL THEN NoKey
        ELSE LET k == FindKey(this.m_Sections[pSection].Keys, szKey)
             IN  IF k = NULL THEN NoKey ELSE <<pSection, k>>

\* GetKey: the requested key (if found) from the requested section, as the
\* pair <<position of the section, position of the key>>; NoKey otherwise
GetKey(this, szKey, szSection) ==
    LET pSection == GetSection(this, szSection)
    IN  IF pSection = NULL THEN NoKey
        ELSE LET k == FindKey(this.m_Sections[pSection].Keys, szKey)
             IN  IF k = NULL THEN NoKey ELSE <<pSection, k>>

-----------------------------------------------------------------------------
(* Typed value coercion                                                    *)

Digits == <<"0","1","2","3","4","5","6","7","8","9">>

DigitVal(ch) == (CHOOSE i \in DOMAIN Digits : Digits[i] = ch) - 1

IsDigit(ch) == ch \in Range(Digits)

RECURSIVE NatToStr(_)
NatToStr(n) ==
    IF n < 10 THEN <<Digits[n + 1]>>
    ELSE NatToStr(n \div 10) \o <<Digits[(n % 10) + 1]>>

IntToStr(n) == IF n < 0 THEN <<"-">> \o NatToStr(0 - n) ELSE NatToStr(n)

\* the number written by the leading digits of str (0 when there are none)
RECURSIVE LeadingNat(_, _)
LeadingNat(str, acc) ==
    IF str = <<>> \/ ~IsDigit(Head(str)) THEN acc
    ELSE LeadingNat(Tail(str), 10 * acc + DigitVal(Head(str)))

StrToInt(str) ==
    IF str # <<>> /\ Head(str) = "-" THEN 0 - LeadingNat(Tail(str), 0)
    ELSE LeadingNat(str, 0)

\* A float is held in tenths: 15 is 1.5. It is written without trailing
\* zeros: 15 as 1.5 and 10 as 1.
FloatToStr(f) ==
    IF f % 10 = 0 THEN NatToStr(f \div 10)
    ELSE NatToStr(f \div 10) \o <<".">> \o <<Digits[(f % 10) + 1]>>

StrToFloat(str) ==
    LET dot  == FindFirstOf(str, <<".">>)
        whole == LeadingNat(str, 0)
        frac == IF dot = 0 \/ dot = Len(str) \/ ~IsDigit(str[dot + 1])
                   \/ \E i \in 1..(dot - 1) : ~IsDigit(str[i])
                THEN 0 ELSE DigitVal(str[dot + 1])
    IN  10 * whole + frac

BoolToStr(b) == IF b THEN <<"T","r","u","e">> ELSE <<"F","a","l","s","e">>

TrueWords == {<<"T","R","U","E">>, <<"1">>, <<"Y","E","S">>, <<"O","N">>}

StrToBool(str) == UpperStr(str) \in TrueWords

-----------------------------------------------------------------------------
(* Data handling methods                                                   *)

\* the mutant of GetValue that, when the given section has no such key, gives
\* the value of the first key of that name in any section
GetValueAnySection(this, szKey, szSection) ==
    LET pKey == GetKey(this, szKey, szSection)
        any  == {i \in DOMAIN this.m_Sections :
                    FindKey(this.m_Sections[i].Keys, szKey) # NULL}
    IN  IF pKey # NoKey THEN this.m_Sections[pKey[1]].Keys[pKey[2]].szValue
        ELSE IF any = {} THEN <<>>
        ELSE this.m_Sections[Min(any)]
                 .Keys[FindKey(this.m_Sections[Min(any)].Keys, szKey)].szValue

\* GetValue: the raw value of the key of the given section only; the empty
\* string when the key is not found
GetValue(this, szKey, szSection) ==
    LET pKey == GetKey(this, szKey, szSection)
    IN  IF pKey = NoKey THEN <<>>
        ELSE this.m_Sections[pKey[1]].Keys[pKey[2]].szValue

GetString(this, szKey, szSection) == GetValue(this, szKey, szSection)

GetFloat(this, szKey, szSection) == StrToFloat(GetValue(this, szKey, szSection))

GetInt(this, szKey, szSection) == StrToInt(GetValue(this, szKey, szSection))

GetBool(this, szKey, szSection) == StrToBool(GetValue(this, szKey, szSection))

CheckSectionName(this, szSectionName) == GetSection(this, szSectionName) # NULL

\* the mutant of CreateSectionKeys that appends without looking for the name
CreateSectionKeysNoCheck(this, szSection, szComment, Keys) ==
    Result([this EXCEPT
              !.m_Sections = Append(@, NewSection(szSection, szComment, Keys)),
              !.m_bDirty = TRUE], TRUE)

\* the mutant of CreateSectionKeys that gives a section that exists the
\* comment and the keys passed
CreateSectionKeysReplaces(this, szSection, szComment, Keys) ==
    IF GetSection(this, szSection) # NULL
    THEN Result([this EXCEPT
                   !.m_Sections[GetSection(this, szSection)].szComment = szComment,
                   !.m_Sections[GetSection(this, szSection)].Keys = Keys,
                   !.m_bDirty = TRUE], TRUE)
    ELSE Result([this EXCEPT
                   !.m_Sections = Append(@, NewSection(szSection, szComment, Keys)),
                   !.m_bDirty = TRUE], TRUE)

\* CreateSection(szSection, szComment, Keys): creates the new section if it
\* does not already exist, and copies the keys passed into it
CreateSectionKeys(this, szSection, szComment, Keys) ==
    IF GetSection(this, szSection) # NULL THEN Result(this, TRUE)
    ELSE Result([this EXCEPT
                   !.m_Sections = Append(@, NewSection(szSection, szComment, Keys)),
                   !.m_bDirty = TRUE], TRUE)

\* CreateSection(szSection, szComment): the section is created with no keys
CreateSection(this, szSection, szComment) ==
    CreateSectionKeys(this, szSection, szComment, <<>>)

\* the key at pKey gets the value, and the comment when one is given
OverwriteKey(this, pKey, szValue, szComment) ==
    [this EXCEPT
       !.m_Sections[pKey[1]].Keys[pKey[2]].szValue = szValue,
       !.m_Sections[pKey[1]].Keys[pKey[2]].szComment =
            IF szComment = <<>> THEN @ ELSE szComment,
       !.m_bDirty = TRUE]

\* a new key is appended to the section at pSection
AppendKey(this, pSection, szKey, szValue, szComment) ==
    [this EXCEPT
       !.m_Sections[pSection].Keys = Append(@, NewKey(szKey, szValue, szComment)),
       !.m_bDirty = TRUE]

\* the mutant of SetValue that creates what is missing whatever m_Flags says
SetValueIgnoresFlags(this, szKey, szValue, szComment, szSection) ==
    LET that     == CreateSection(this, szSection, <<>>).this
        pSection == GetSection(that, szSection)
        pKey     == GetKey(that, szKey, szSection)
    IN  IF pKey # NoKey
        THEN Result(OverwriteKey(that, pKey, szValue, szComment), TRUE)
        ELSE Result(AppendKey(that, pSection, szKey, szValue, szComment), TRUE)

\* the mutant of SetValue that gives a key that exists the comment passed even
\* when it is empty
SetValueSetsComment(this, szKey, szValue, szComment, szSection) ==
    IF GetSection(this, szSection) = NULL
       /\ ~HasFlag(this.m_Flags, AUTOCREATE_SECTIONS)
    THEN Result(this, FALSE)
    ELSE LET that     == IF GetSection(this, szSection) = NULL
                         THEN CreateSection(this, szSection, <<>>).this
                         ELSE this
             pSection == GetSection(that, szSection)
             pKey     == GetKey(that, szKey, szSection)
         IN  IF pKey # NoKey
             THEN Result([that EXCEPT
                            !.m_Sections[pKey[1]].Keys[pKey[2]].szValue = szValue,
                            !.m_Sections[pKey[1]].Keys[pKey[2]].szComment = szComment,
                            !.m_bDirty = TRUE], TRUE)
             ELSE IF HasFlag(that.m_Flags, AUTOCREATE_KEYS)
             THEN Result(AppendKey(that, pSection, szKey, szValue, szComment), TRUE)
             ELSE Result(that, FALSE)

\* SetValue: sets the value of a given key. Creates the section if it is not
\* found and AUTOCREATE_SECTIONS is set, and the key if it is not found and
\* AUTOCREATE_KEYS is set.
SetValue(this, szKey, szValue, szComment, szSection) ==
    IF GetSection(this, szSection) = NULL
       /\ ~HasFlag(this.m_Flags, AUTOCREATE_SECTIONS)
    THEN Result(this, FALSE)
    ELSE LET that     == IF GetSection(this, szSection) = NULL
                         THEN CreateSection(this, szSection, <<>>).this
                         ELSE this
             pSection == GetSection(that, szSection)
             pKey     == GetKey(that, szKey, szSection)
         IN  IF pKey # NoKey
             THEN Result(OverwriteKey(that, pKey, szValue, szComment), TRUE)
             ELSE IF HasFlag(that.m_Flags, AUTOCREATE_KEYS)
             THEN Result(AppendKey(that, pSection, szKey, szValue, szComment), TRUE)
             ELSE Result(that, FALSE)

SetFloat(this, szKey, fValue, szComment, szSection) ==
    SetValue(this, szKey, FloatToStr(fValue), szComment, szSection)

SetInt(this, szKey, nValue, szComment, szSection) ==
    SetValue(this, szKey, IntToStr(nValue), szComment, szSection)

SetBool(this, szKey, bValue, szComment, szSection) ==
    SetValue(this, szKey, BoolToStr(bValue), szComment, szSection)

\* SetKeyComment: sets the comment of a given key
SetKeyComment(this, szKey, szComment, szSection) ==
    LET pKey == GetKey(this, szKey, szSection)
    IN  IF pKey = NoKey THEN Result(this, FALSE)
        ELSE Result([this EXCEPT
                       !.m_Sections[pKey[1]].Keys[pKey[2]].szComment = szComment,
                       !.m_bDirty = TRUE], TRUE)

\* SetSectionComment: sets the comment of a given section
SetSectionComment(this, szSection, szComment) ==
    LET pSection == GetSection(this, szSection)
    IN  IF pSection = NULL THEN Result(this, FALSE)
        ELSE Result([this EXCEPT
                       !.m_Sections[pSection].szComment = szComment,
                       !.m_bDirty = TRUE], TRUE)

\* the sequence without its element at position i
RemoveAt(seq, i) == Sub(seq, 1, i - 1) \o Sub(seq, i + 1, Len(seq))

\* the mutant of DeleteKey that deletes every key of that name
DeleteKeyEveryMatch(this, szKey, szFromSection) ==
    LET pKey == GetKey(this, szKey, szFromSection)
    IN  IF pKey = NoKey THEN Result(this, FALSE)
        ELSE Result([this EXCEPT
                       !.m_Sections[pKey[1]].Keys =
                            SelectSeq(@, LAMBDA key :
                                         CompareNoCase(key.szKey, szKey) # 0),
                       !.m_bDirty = TRUE], TRUE)

\* DeleteKey: deletes a given key from a specific section
DeleteKey(this, szKey, szFromSection) ==
    LET pKey == GetKey(this, szKey, szFromSection)
    IN  IF pKey = NoKey THEN Result(this, FALSE)
        ELSE Result([this EXCEPT
                       !.m_Sections[pKey[1]].Keys = RemoveAt(@, pKey[2]),
                       !.m_bDirty = TRUE], TRUE)

\* DeleteSection: deletes a given section
DeleteSection(this, szSection) ==
    LET pSection == GetSection(this, szSection)
    IN  IF pSection = NULL THEN Result(this, FALSE)
        ELSE Result([this EXCEPT
                       !.m_Sections = RemoveAt(@, pSection),
                       !.m_bDirty = TRUE], TRUE)

\* the mutant of CreateKey that creates the key only if AUTOCREATE_KEYS is set
CreateKeyObeysKeyFlag(this, szKey, szValue, szComment, szSection) ==
    SetValue(this, szKey, szValue, szComment, szSection)

\* CreateKey: creates a new key in the requested section, whatever
\* AUTOCREATE_KEYS says. The section is created if it does not exist and the
\* AUTOCREATE_SECTIONS bit is set.
CreateKey(this, szKey, szValue, szComment, szSection) ==
    LET r == SetValue([this EXCEPT !.m_Flags = WithFlag(@, AUTOCREATE_KEYS)],
                      szKey, szValue, szComment, szSection)
    IN  Result([r.this EXCEPT !.m_Flags = this.m_Flags], r.ret)

-----------------------------------------------------------------------------
(* Utility methods                                                         *)

SectionCount(this) == Len(this.m_Sections)

RECURSIVE SumKeys(_)
SumKeys(secs) ==
    IF secs = <<>> THEN 0 ELSE Len(Head(secs).Keys) + SumKeys(Tail(secs))

KeyCount(this) == SumKeys(this.m_Sections)

\* the mutant of Clear that leaves m_bDirty as it is
ClearKeepsDirty(this) == [this EXCEPT !.m_Sections = <<>>, !.m_szFileName = <<>>]

\* Clear: an empty document with no file name, not dirty
Clear(this) ==
    [this EXCEPT !.m_Sections = <<>>, !.m_szFileName = <<>>, !.m_bDirty = FALSE]

\* the mutant of ClearDirty that clears nothing
ClearDirtyNoOp(this) == this

\* ClearDirty: clears m_bDirty, so that Save does not write the file
ClearDirty(this) == [this EXCEPT !.m_bDirty = FALSE]

SetFileName(this, szFileName) == [this EXCEPT !.m_szFileName = szFileName]

-----------------------------------------------------------------------------
(* The parser                                                              *)

\* The state carried from line to line: the sections read so far, the
\* comment lines not yet attached to a section or key, and the position of
\* the section that takes the next keys (NULL: the global section, which is
\* created when its first key is read).
ParseStart == [m_Sections |-> <<>>, szComment |-> <<>>, pSection |-> NULL]

IsCommentLine(szLine) == szLine # <<>> /\ szLine[1] \in Range(CommentIndicators)

IsSectionLine(szLine) ==
    Len(szLine) >= 2 /\ szLine[1] = "[" /\ szLine[Len(szLine)] = "]"

\* a comment line without its indicator and the space that follows it
CommentText(szLine) ==
    LET rest == Sub(szLine, 2, Len(szLine))
    IN  IF rest # <<>> /\ rest[1] = " " THEN Tail(rest) ELSE rest

ParseComment(st, szLine) ==
    [st EXCEPT !.szComment = IF @ = <<>> THEN CommentText(szLine)
                             ELSE @ \o <<"\n">> \o CommentText(szLine)]

\* the mutant of ParseSection that gives a section that exists the pending
\* comment (the last comment wins)
ParseSectionLastComment(st, szLine) ==
    LET szName == Trim(Sub(szLine, 2, Len(szLine) - 1))
        found  == GetSection(st, szName)
    IN  IF found # NULL
        THEN [st EXCEPT !.m_Sections[found].szComment = st.szComment,
                        !.pSection = found, !.szComment = <<>>]
        ELSE [st EXCEPT
                !.m_Sections = Append(@, NewSection(szName, st.szComment, <<>>)),
                !.pSection = Len(st.m_Sections) + 1,
                !.szComment = <<>>]

ParseSection(st, szLine) ==
    LET szName == Trim(Sub(szLine, 2, Len(szLine) - 1))
        found  == GetSection(st, szName)
    IN  IF found # NULL
        THEN [st EXCEPT !.pSection = found, !.szComment = <<>>]
        ELSE [st EXCEPT
                !.m_Sections = Append(@, NewSection(szName, st.szComment, <<>>)),
                !.pSection = Len(st.m_Sections) + 1,
                !.szComment = <<>>]

\* the mutant of ParseKey that leaves a key that exists its comment when
\* no comment is pending
ParseKeyKeepsComment(st, szLine) ==
    LET eq      == FindFirstOf(szLine, EqualIndicators)
        szKey   == Trim(Sub(szLine, 1, eq - 1))
        szValue == Trim(Sub(szLine, eq + 1, Len(szLine)))
        global  == GetSection(st, <<>>)
        secs    == IF st.pSection = NULL /\ global = NULL
                   THEN Append(st.m_Sections, st_section)
                   ELSE st.m_Sections
        cur     == IF st.pSection # NULL THEN st.pSection
                   ELSE IF global # NULL THEN global ELSE Len(secs)
        k       == FindKey(secs[cur].Keys, szKey)
    IN  [st EXCEPT
           !.m_Sections =
               IF k = NULL
               THEN [secs EXCEPT ![cur].Keys =
                        Append(@, NewKey(szKey, szValue, st.szComment))]
               ELSE [secs EXCEPT ![cur].Keys[k].szValue = szValue,
                                 ![cur].Keys[k].szComment =
                                    IF st.szComment = <<>> THEN @
                                    ELSE st.szComment],
           !.pSection = cur,
           !.szComment = <<>>]

ParseKey(st, szLine) ==
    LET eq      == FindFirstOf(szLine, EqualIndicators)
        szKey   == Trim(Sub(szLine, 1, eq - 1))
        szValue == Trim(Sub(szLine, eq + 1, Len(szLine)))
        global  == GetSection(st, <<>>)
        secs    == IF st.pSection = NULL /\ global = NULL
                   THEN Append(st.m_Sections, st_section)
                   ELSE st.m_Sections
        cur     == IF st.pSection # NULL THEN st.pSection
                   ELSE IF global # NULL THEN global ELSE Len(secs)
        k       == FindKey(secs[cur].Keys, szKey)
    IN  [st EXCEPT
           !.m_Sections =
               IF k = NULL
               THEN [secs EXCEPT ![cur].Keys =
                        Append(@, NewKey(szKey, szValue, st.szComment))]
               ELSE [secs EXCEPT ![cur].Keys[k].szValue = szValue,
                                 ![cur].Keys[k].szComment = st.szComment],
           !.pSection = cur,
           !.szComment = <<>>]

\* the mutant of ParseLine that drops the pending comment at a malformed line
ParseLineDropsComment(st, szRaw) ==
    LET szLine == Trim(szRaw)
    IN  IF szLine = <<>> THEN st
        ELSE IF IsCommentLine(szLine) THEN ParseComment(st, szLine)
        ELSE IF IsSectionLine(szLine) THEN ParseSection(st, szLine)
        ELSE IF FindFirstOf(szLine, EqualIndicators) # 0 THEN ParseKey(st, szLine)
        ELSE [st EXCEPT !.szComment = <<>>]

\* one line of the file
ParseLine(st, szRaw) ==
    LET szLine == Trim(szRaw)
    IN  IF szLine = <<>> THEN st
        ELSE IF IsCommentLine(szLine) THEN ParseComment(st, szLine)
        ELSE IF IsSectionLine(szLine) THEN ParseSection(st, szLine)
        ELSE IF FindFirstOf(szLine, EqualIndicators) # 0 THEN ParseKey(st, szLine)
        ELSE st

RECURSIVE ParseFrom(_, _)
ParseFrom(st, lines) ==
    IF lines = <<>> THEN st ELSE ParseFrom(ParseLine(st, Head(lines)), Tail(lines))

\* the sections a file of these lines holds
Parse(lines) == ParseFrom(ParseStart, lines).m_Sections

-----------------------------------------------------------------------------
(* The serializer                                                          *)

\* CommentStr: a comment as a proper comment token/comment: the first
\* indicator and a space are put before a comment that does not already start
\* with an indicator; an empty comment stays empty
CommentStr(szComment) ==
    IF szComment = <<>> THEN <<>>
    ELSE IF szComment[1] \in Range(CommentIndicators) THEN szComment
    ELSE <<CommentIndicators[1], " ">> \o szComment

\* the lines of a text, which "\n" separates
RECURSIVE SplitLines(_)
SplitLines(str) ==
    LET nl == FindFirstOf(str, <<"\n">>)
    IN  IF nl = 0 THEN <<str>>
        ELSE <<Sub(str, 1, nl - 1)>> \o SplitLines(Sub(str, nl + 1, Len(str)))

\* the lines written for a comment: none for an empty one
RECURSIVE CommentLinesOf(_)
CommentLinesOf(lines) ==
    IF lines = <<>> THEN <<>>
    ELSE (IF CommentStr(Head(lines)) = <<>> THEN <<>>
          ELSE <<CommentStr(Head(lines))>>) \o CommentLinesOf(Tail(lines))

CommentLines(szComment) ==
    IF szComment = <<>> THEN <<>> ELSE CommentLinesOf(SplitLines(szComment))

KeyLines(key) ==
    CommentLines(key.szComment)
        \o <<key.szKey \o <<EqualIndicators[1]>> \o key.szValue>>

RECURSIVE KeysLines(_)
KeysLines(Keys) ==
    IF Keys = <<>> THEN <<>> ELSE KeyLines(Head(Keys)) \o KeysLines(Tail(Keys))

SectionLines(sec) ==
    CommentLines(sec.szComment)
        \o (IF sec.szName = <<>> THEN <<>>
            ELSE << <<"[">> \o sec.szName \o <<"]">> >>)
        \o KeysLines(sec.Keys)

\* the lines written for the sections from position i on
RECURSIVE SerializeFrom(_, _)
SerializeFrom(secs, i) ==
    IF i > Len(secs) THEN <<>>
    ELSE (IF i = 1 THEN <<>> ELSE << <<>> >>)
            \o SectionLines(secs[i]) \o SerializeFrom(secs, i + 1)

Serialize(secs) == SerializeFrom(secs, 1)

-----------------------------------------------------------------------------
(* File handling methods                                                   *)

\* What the I/O collaborator gives for a file: its lines, or a failure
File(lines) == [ok |-> TRUE, lines |-> lines]
NoFile == [ok |-> FALSE, lines |-> <<>>]

\* the mutant of Load that clears the document before it reads the file
LoadClearsFirst(this, szFileName, file) ==
    IF ~file.ok THEN Result(Clear(this), FALSE)
    ELSE Result([this EXCEPT !.m_Sections = Parse(file.lines),
                             !.m_szFileName = szFileName,
                             !.m_bDirty = FALSE], TRUE)

\* Load: the document becomes what the lines read from the file hold; when
\* the file cannot be read nothing changes
Load(this, szFileName, file) ==
    IF ~file.ok THEN Result(this, FALSE)
    ELSE Result([this EXCEPT !.m_Sections = Parse(file.lines),
                             !.m_szFileName = szFileName,
                             !.m_bDirty = FALSE], TRUE)

\* Save: nothing is written when the document is not dirty; otherwise the
\* lines of the document are handed to the I/O collaborator, and when it
\* writes them (ok) the document is no longer dirty. wrote holds the lines
\* handed over, and is empty when no write was made.
Save(this, ok) ==
    IF ~this.m_bDirty
    THEN [this |-> this, ret |-> TRUE, wrote |-> <<>>]
    ELSE [this  |-> [this EXCEPT !.m_bDirty = IF ok THEN FALSE ELSE @],
          ret   |-> ok,
          wrote |-> <<Serialize(this.m_Sections)>>]

-----------------------------------------------------------------------------
(* The calls the model makes                                               *)

K(szKey, szValue, szComment) == NewKey(szKey, szValue, szComment)

\* the vocabulary of the calls made one at a time on any document
SectionNames == {<<>>, <<"s">>, <<"S">>}
KeyNames     == {<<"k">>, <<"K">>}
Values       == {<<"1">>, <<"o","n">>}
Comments     == {<<>>, <<"c">>}
IntValues    == {1}
FloatValues  == {15}
BoolValues   == {TRUE}
KeyLists     == {<<>>, <<K(<<"k">>, <<"1">>, <<>>)>>,
                 <<K(<<"k">>, <<"1">>, <<>>), K(<<"K">>, <<"o","n">>, <<"c">>)>>}

\* the vocabulary of the calls made in long runs
RunSectionNames == {<<>>, <<"s">>, <<"S">>}
RunKeyNames     == {<<"k">>, <<"K">>}
RunValues       == {<<"1">>}
RunComments     == {<<"c">>}
NoComment       == {<<>>}
RunIntValues    == {1}
RunFloatValues  == {10}
RunKeyLists     == {<<>>, <<K(<<"k">>, <<"1">>, <<>>)>>}

\* the file there is, and what the I/O collaborator may read from it
TheFile == <<"a">>
Files ==
    {NoFile,
     File(<< <<"k","=","1">>, <<";"," ","c">>, <<"[","s","]">>, <<"K",":","1">> >>),
     File(<< <<"[","S","]">>, <<"#","c">>, <<"k"," ","="," ","1">>, <<"j","=","1">>,
             <<"[","s","]">> >>)}

Unlimited == 0 - 1

\* the document is within the bounds of the model
Bounded(this) ==
    /\ Len(this.m_Sections) <= MaxSections
    /\ \A i \in DOMAIN this.m_Sections : Len(this.m_Sections[i].Keys) <= MaxKeys

\* What is kept of a call: what it returned and the lines it had written
\* and, for the calls made one at a time, its arguments and the object
\* before it.
Note(op, args, ret, wrote) ==
    [op    |-> op,
     args  |-> IF calls = Unlimited THEN <<>> ELSE args,
     was   |-> IF calls = Unlimited THEN <<>> ELSE <<This>>,
     ret   |-> ret,
     wrote |-> wrote]

NoCall == [op |-> "CDataFile", args |-> <<>>, was |-> <<>>, ret |-> TRUE,
           wrote |-> <<>>]

\* the object becomes this and the call is recorded
Does(op, args, this, ret, wrote) ==
    /\ calls # 0
    /\ Bounded(this)
    /\ m_Sections'   = this.m_Sections
    /\ m_Flags'      = this.m_Flags
    /\ m_szFileName' = this.m_szFileName
    /\ m_bDirty'     = this.m_bDirty
    /\ last'         = Note(op, args, ret, wrote)
    /\ calls'        = IF calls = Unlimited THEN calls ELSE calls - 1

Becomes(op, args, r) == Does(op, args, r.this, r.ret, <<>>)

\* a call that only reads the object
Reads(op, args, ret) == Becomes(op, args, Result(This, ret))

\* Load: the I/O collaborator hands the lines of the file, or fails
LoadCall(F) ==
    /\ calls # 0
    /\ \E file \in F :
        Becomes("Load", <<TheFile, file>>, Load(This, TheFile, file))

\* Save: the I/O collaborator writes the lines handed to it, or fails
SaveCall ==
    /\ calls # 0
    /\ \E ok \in BOOLEAN :
        LET r == Save(This, ok)
        IN  Does("Save", <<ok>>, r.this, r.ret, r.wrote)

GetValueCall(KN, SN) ==
    /\ calls # 0
    /\ \E szKey \in KN, szSection \in SN :
        Reads("GetValue", <<szKey, szSection>>, GetValue(This, szKey, szSection))

GetStringCall(KN, SN) ==
    /\ calls # 0
    /\ \E szKey \in KN, szSection \in SN :
        Reads("GetString", <<szKey, szSection>>, GetString(This, szKey, szSection))

GetFloatCall(KN, SN) ==
    /\ calls # 0
    /\ \E szKey \in KN, szSection \in SN :
        Reads("GetFloat", <<szKey, szSection>>, GetFloat(This, szKey, szSection))

GetIntCall(KN, SN) ==
    /\ calls # 0
    /\ \E szKey \in KN, szSection \in SN :
        Reads("GetInt", <<szKey, szSection>>, GetInt(This, szKey, szSection))

GetBoolCall(KN, SN) ==
    /\ calls # 0
    /\ \E szKey \in KN, szSection \in SN :
        Reads("GetBool", <<szKey, szSection>>, GetBool(This, szKey, szSection))

CheckSectionNameCall(SN) ==
    /\ calls # 0
    /\ \E szSection \in SN :
        Reads("CheckSectionName", <<szSection>>, CheckSectionName(This, szSection))

SetValueCall(KN, V, C, SN) ==
    /\ calls # 0
    /\ \E szKey \in KN, szValue \in V, szComment \in C, szSection \in SN :
        Becomes("SetValue", <<szKey, szValue, szComment, szSection>>,
                SetValue(This, szKey, szValue, szComment, szSection))

SetFloatCall(KN, V, C, SN) ==
    /\ calls # 0
    /\ \E szKey \in KN, fValue \in V, szComment \in C, szSection \in SN :
        Becomes("SetFloat", <<szKey, fValue, szComment, szSection>>,
                SetFloat(This, szKey, fValue, szComment, szSection))

SetIntCall(KN, V, C, SN) ==
    /\ calls # 0
    /\ \E szKey \in KN, nValue \in V, szComment \in C, szSection \in SN :
        Becomes("SetInt", <<szKey, nValue, szComment, szSection>>,
                SetInt(This, szKey, nValue, szComment, szSection))

SetBoolCall(KN, V, C, SN) ==
    /\ calls # 0
    /\ \E szKey \in KN, bValue \in V, szComment \in C, szSection \in SN :
        Becomes("SetBool", <<szKey, bValue, szComment, szSection>>,
                SetBool(This, szKey, bValue, szComment, szSection))

SetKeyCommentCall(KN, C, SN) ==
    /\ calls # 0
    /\ \E szKey \in KN, szComment \in C, szSection \in SN :
        Becomes("SetKeyComment", <<szKey, szComment, szSection>>,
                SetKeyComment(This, szKey, szComment, szSection))

SetSectionCommentCall(SN, C) ==
    /\ calls # 0
    /\ \E szSection \in SN, szComment \in C :
        Becomes("SetSectionComment", <<szSection, szComment>>,
                SetSectionComment(This, szSection, szComment))

DeleteKeyCall(KN, SN) ==
    /\ calls # 0
    /\ \E szKey \in KN, szFromSection \in SN :
        Becomes("DeleteKey", <<szKey, szFromSection>>,
                DeleteKey(This, szKey, szFromSection))

DeleteSectionCall(SN) ==
    /\ calls # 0
    /\ \E szSection \in SN :
        Becomes("DeleteSection", <<szSection>>, DeleteSection(This, szSection))

CreateKeyCall(KN, V, C, SN) ==
    /\ calls # 0
    /\ \E szKey \in KN, szValue \in V, szComment \in C, szSection \in SN :
        Becomes("CreateKey", <<szKey, szValue, szComment, szSection>>,
                CreateKey(This, szKey, szValue, szComment, szSection))

CreateSectionCall(SN, C) ==
    /\ calls # 0
    /\ \E szSection \in SN, szComment \in C :
        Becomes("CreateSection", <<szSection, szComment>>,
                CreateSection(This, szSection, szComment))

CreateSectionKeysCall(SN, C, KL) ==
    /\ calls # 0
    /\ \E szSection \in SN, szComment \in C, Keys \in KL :
        Becomes("CreateSectionKeys", <<szSection, szComment, Keys>>,
                CreateSectionKeys(This, szSection, szComment, Keys))

SectionCountCall == Reads("SectionCount", <<>>, SectionCount(This))

KeyCountCall == Reads("KeyCount", <<>>, KeyCount(This))

ClearCall == Becomes("Clear", <<>>, Result(Clear(This), TRUE))

ClearDirtyCall == Becomes("ClearDirty", <<>>, Result(ClearDirty(This), TRUE))

SetFileNameCall ==
    Becomes("SetFileName", <<TheFile>>, Result(SetFileName(This, TheFile), TRUE))

\* m_Flags is a public member: the caller sets it
SetFlagsCall ==
    /\ calls # 0
    /\ \E flags \in FlagSettings :
        Becomes("m_Flags", <<flags>>, Result([This EXCEPT !.m_Flags = flags], TRUE))

-----------------------------------------------------------------------------
(* Long runs on an object constructed empty                                *)

Init ==
    /\ m_Sections = <<>>
    /\ m_Flags \in FlagSettings
    /\ m_szFileName = <<>>
    /\ m_bDirty = FALSE
    /\ last = NoCall
    /\ calls = Unlimited

DoLoad == LoadCall(Files)
DoSave == SaveCall
DoSetValue == SetValueCall(RunKeyNames, RunValues, Comments, RunSectionNames)
DoSetFloat == SetFloatCall(RunKeyNames, RunFloatValues, NoComment, RunSectionNames)
DoSetInt == SetIntCall(RunKeyNames, RunIntValues, NoComment, RunSectionNames)
DoSetKeyComment == SetKeyCommentCall(RunKeyNames, RunComments, RunSectionNames)
DoSetSectionComment == SetSectionCommentCall(RunSectionNames, RunComments)
DoDeleteKey == DeleteKeyCall(RunKeyNames, RunSectionNames)
DoDeleteSection == DeleteSectionCall(RunSectionNames)
DoCreateKey == CreateKeyCall(RunKeyNames, RunValues, NoComment, RunSectionNames)
DoCreateSection == CreateSectionCall(RunSectionNames, NoComment)
DoCreateSectionKeys == CreateSectionKeysCall(RunSectionNames, NoComment, RunKeyLists)
DoClear == ClearCall
DoClearDirty == ClearDirtyCall
DoSetFlags == SetFlagsCall

Next ==
    \/ DoLoad
    \/ DoSave
    \/ DoSetValue
    \/ DoSetFloat
    \/ DoSetInt
    \/ DoSetKeyComment
    \/ DoSetSectionComment
    \/ DoDeleteKey
    \/ DoDeleteSection
    \/ DoCreateKey
    \/ DoCreateSection
    \/ DoCreateSectionKeys
    \/ DoClear
    \/ DoClearDirty
    \/ DoSetFlags

Spec == Init /\ [][Next]_vars

-----------------------------------------------------------------------------
(* Documents built through the methods alone, with both flags set          *)

ApiInit ==
    /\ m_Sections = <<>>
    /\ m_Flags = AUTOCREATE_SECTIONS + AUTOCREATE_KEYS
    /\ m_szFileName = <<>>
    /\ m_bDirty = FALSE
    /\ last = NoCall
    /\ calls = Unlimited

ApiNext ==
    \/ DoSetValue
    \/ DoSetFloat
    \/ DoSetInt
    \/ DoSetKeyComment
    \/ DoSetSectionComment
    \/ DoDeleteKey
    \/ DoDeleteSection
    \/ DoCreateKey
    \/ DoCreateSection
    \/ DoCreateSectionKeys

SpecApi == ApiInit /\ [][ApiNext]_vars

-----------------------------------------------------------------------------
(* One call on any document                                                *)

\* the key lists a section may hold before the call
CallKeyLists ==
    KeyLists \cup {<<K(<<"K">>, <<"1">>, <<>>)>>,
                   <<K(<<"k">>, <<"1">>, <<"c">>)>>,
                   <<K(<<"j">>, <<"1">>, <<>>), K(<<"k">>, <<"1">>, <<"c">>)>>}

CallSections ==
    {NewSection(n, c, kl) : n \in SectionNames, c \in Comments, kl \in CallKeyLists}

\* the documents the call is made on: no two sections share a name
Documents ==
    {<<>>} \cup {<<a>> : a \in CallSections}
           \cup {d \in {<<a, b>> : a \in CallSections, b \in CallSections} :
                    CompareNoCase(d[1].szName, d[2].szName) # 0}

CallInit ==
    /\ m_Sections \in Documents
    /\ m_Flags \in FlagSettings
    /\ m_szFileName = <<>>
    /\ m_bDirty \in BOOLEAN
    /\ last = NoCall
    /\ calls = 1

CallLoad == LoadCall(Files)
CallSave == SaveCall
CallGetValue == GetValueCall(KeyNames, SectionNames)
CallGetString == GetStringCall(KeyNames, SectionNames)
CallGetFloat == GetFloatCall(KeyNames, SectionNames)
CallGetInt == GetIntCall(KeyNames, SectionNames)
CallGetBool == GetBoolCall(KeyNames, SectionNames)
CallCheckSectionName == CheckSectionNameCall(SectionNames)
CallSetValue == SetValueCall(KeyNames, Values, Comments, SectionNames)
CallSetFloat == SetFloatCall(KeyNames, FloatValues, Comments, SectionNames)
CallSetInt == SetIntCall(KeyNames, IntValues, Comments, SectionNames)
CallSetBool == SetBoolCall(KeyNames, BoolValues, Comments, SectionNames)
CallSetKeyComment == SetKeyCommentCall(KeyNames, Comments, SectionNames)
CallSetSectionComment == SetSectionCommentCall(SectionNames, Comments)
CallDeleteKey == DeleteKeyCall(KeyNames, SectionNames)
CallDeleteSection == DeleteSectionCall(SectionNames)
CallCreateKey == CreateKeyCall(KeyNames, Values, Comments, SectionNames)
CallCreateSection == CreateSectionCall(SectionNames, Comments)
CallCreateSectionKeys == CreateSectionKeysCall(SectionNames, Comments, KeyLists)
CallSectionCount == SectionCountCall
CallKeyCount == KeyCountCall
CallClear == ClearCall
CallClearDirty == ClearDirtyCall
CallSetFileName == SetFileNameCall

CallNext ==
    \/ CallLoad
    \/ CallSave
    \/ CallGetValue
    \/ CallGetString
    \/ CallGetFloat
    \/ CallGetInt
    \/ CallGetBool
    \/ CallCheckSectionName
    \/ CallSetValue
    \/ CallSetFloat
    \/ CallSetInt
    \/ CallSetBool
    \/ CallSetKeyComment
    \/ CallSetSectionComment
    \/ CallDeleteKey
    \/ CallDeleteSection
    \/ CallCreateKey
    \/ CallCreateSection
    \/ CallCreateSectionKeys
    \/ CallSectionCount
    \/ CallKeyCount
    \/ CallClear
    \/ CallClearDirty
    \/ CallSetFileName

SpecCall == CallInit /\ [][CallNext]_vars

-----------------------------------------------------------------------------
(* One load of any file                                                    *)

\* the lines a file is made of
Lines ==
    {<<>>,
     <<";"," ","c">>,
     <<";">>,
     <<";",";","c">>,
     <<"#","c">>,
     <<"[","s","]">>,
     <<" ","["," ","S"," ","]">>,
     <<"[","]">>,
     <<"k","=","1">>,
     <<"K"," ",":"," ","o","n"," ">>,
     <<"k","=">>,
     <<"j">>}

RECURSIVE TextsOf(_)
TextsOf(n) ==
    IF n = 0 THEN {<<>>}
    ELSE LET shorter == TextsOf(n - 1)
         IN  shorter \cup {Append(t, l) : t \in {x \in shorter : Len(x) = n - 1},
                                          l \in Lines}

Texts == {File(t) : t \in TextsOf(MaxLines)}

ParseInit ==
    /\ m_Sections = <<>>
    /\ m_Flags \in FlagSettings
    /\ m_szFileName = <<>>
    /\ m_bDirty = FALSE
    /\ last = NoCall
    /\ calls = 1

ParseLoad == LoadCall(Texts)

ParseNext == ParseLoad

SpecParse == ParseInit /\ [][ParseNext]_vars

-----------------------------------------------------------------------------
(* The claims                                                              *)

\* two names are equal under case-insensitive comparison
SameName(a, b) == UpperStr(a) = UpperStr(b)

\* the object before the last call (kept for the calls made one at a time)
Was == last.was[1]

SetOps == {"SetValue", "SetFloat", "SetInt", "SetBool"}

\* C1: in every state reached by any sequence of Load, CreateSection (both
\* overloads), CreateKey, Set*, DeleteSection, DeleteKey and Clear, no two
\* sections of the document have names equal under case-insensitive
\* comparison.
C1_SectionNamesUnique ==
    \A i, j \in DOMAIN m_Sections :
        i # j => ~SameName(m_Sections[i].szName, m_Sections[j].szName)

\* CreateSection was called on a document of two sections and added none
C1_Witness ==
    /\ last.op = "CreateSection"
    /\ last.ret = TRUE
    /\ ~m_bDirty
    /\ Len(m_Sections) = 2

\* C2: starting from a document whose sections hold keys of pairwise
\* case-insensitively distinct names, no sequence of CreateKey and Set* calls,
\* under any setting of the flags, leaves a section with two keys whose names
\* are equal under case-insensitive comparison.
C2_KeyNamesUnique ==
    \A s \in DOMAIN m_Sections :
        \A i, j \in DOMAIN m_Sections[s].Keys :
            i # j => ~SameName(m_Sections[s].Keys[i].szKey,
                               m_Sections[s].Keys[j].szKey)

\* with no flag set, SetInt succeeded on a document that holds a section of
\* two keys: it overwrote a key that was there
C2_Witness ==
    /\ last.op = "SetInt"
    /\ last.ret = TRUE
    /\ m_Flags = 0
    /\ \E s \in DOMAIN m_Sections : Len(m_Sections[s].Keys) = 2

\* C3: on a document with no section named S, SetValue(K, v, "", S) with
\* neither flag set returns false and leaves SectionCount and KeyCount as
\* they were; with both flags set it returns true and each count grows by one.
C3_AutocreateGating ==
    (/\ last.op = "SetValue"
     /\ last.args[3] = <<>>
     /\ GetSection(Was, last.args[4]) = NULL)
    => /\ Was.m_Flags = 0
            => /\ last.ret = FALSE
               /\ SectionCount(This) = SectionCount(Was)
               /\ KeyCount(This) = KeyCount(Was)
       /\ Was.m_Flags = AUTOCREATE_SECTIONS + AUTOCREATE_KEYS
            => /\ last.ret = TRUE
               /\ SectionCount(This) = SectionCount(Was) + 1
               /\ KeyCount(This) = KeyCount(Was) + 1

\* with both flags set, SetValue was called for a section that was not there
C3_Witness ==
    /\ last.op = "SetValue"
    /\ last.args[3] = <<>>
    /\ GetSection(Was, last.args[4]) = NULL
    /\ Was.m_Flags = AUTOCREATE_SECTIONS + AUTOCREATE_KEYS
    /\ Was.m_Sections # <<>>

\* C4: a Set* call that returns false performs no mutation: the sections,
\* their keys, every comment and the dirty flag are as before the call,
\* under every setting of the flags.
C4_DeniedSetMutatesNothing ==
    (last.op \in SetOps /\ last.ret = FALSE) => This = Was

\* C5: Save performs a write exactly when the document is dirty at the time
\* of the call; a successful Load leaves the document not dirty, so a Save
\* right after it writes nothing; a successful SetValue leaves it dirty, so a
\* Save right after it writes; ClearDirty leaves it not dirty, so a Save right
\* after it writes nothing.
C5_SaveWritesWhenDirty ==
    [][/\ last'.op = "Save" => (last'.wrote # <<>> <=> m_bDirty)
       /\ (last'.op = "Load" /\ last'.ret = TRUE) => ~m_bDirty'
       /\ (last'.op = "SetValue" /\ last'.ret = TRUE) => m_bDirty'
       /\ last'.op = "ClearDirty" => ~m_bDirty']_vars

\* Save wrote the lines of a document that holds a section
C5_Witness ==
    /\ last.op = "Save"
    /\ last.wrote # <<>>
    /\ last.ret = TRUE
    /\ m_Sections # <<>>

Mutators == SetOps \cup {"CreateKey", "CreateSection", "CreateSectionKeys",
                         "DeleteKey", "DeleteSection", "SetKeyComment",
                         "SetSectionComment"}

\* the step is a successful mutation: a mutator returned true and changed
\* the document
Mutation ==
    /\ last'.op \in Mutators
    /\ last'.ret = TRUE
    /\ m_Sections' # m_Sections

\* the step is a ClearDirty, a Clear or a successful Save
Cleaning == last'.op \in {"ClearDirty", "Clear"} \/ (last'.op = "Save" /\ last'.ret = TRUE)

\* C6 as stated: after a successful mutation the dirty flag is true, and it
\* stays true across every later call until ClearDirty, Clear or a successful
\* Save, each of which leaves it false.
C6_DirtyUntilCleaned ==
    [][/\ Mutation => m_bDirty'
       /\ (m_bDirty /\ ~Cleaning) => m_bDirty'
       /\ Cleaning => ~m_bDirty']_vars

\* C6 as amended: after a successful mutation the dirty flag is true, and it
\* stays true across every later call until ClearDirty, Clear, a successful
\* Save or a successful Load, each of which leaves it false.
C6_DirtyUntilCleanedOrLoaded ==
    [][/\ Mutation => m_bDirty'
       /\ (m_bDirty /\ ~Cleaning /\ ~(last'.op = "Load" /\ last'.ret = TRUE))
            => m_bDirty'
       /\ (Cleaning \/ (last'.op = "Load" /\ last'.ret = TRUE)) => ~m_bDirty']_vars

\* DeleteKey removed a key and the document is dirty
C6_Witness ==
    /\ last.op = "DeleteKey"
    /\ last.ret = TRUE
    /\ m_bDirty

\* a line that is blank, a comment, the header of a named section or the
\* assignment of a named key
WellFormedLine(szRaw) ==
    LET szLine == Trim(szRaw)
    IN  \/ szLine = <<>>
        \/ IsCommentLine(szLine)
        \/ IsSectionLine(szLine) /\ Trim(Sub(szLine, 2, Len(szLine) - 1)) # <<>>
        \/ /\ ~IsSectionLine(szLine)
           /\ FindFirstOf(szLine, EqualIndicators) > 1
           /\ Trim(Sub(szLine, 1, FindFirstOf(szLine, EqualIndicators) - 1)) # <<>>

WellFormed(lines) == \A i \in DOMAIN lines : WellFormedLine(lines[i])

\* C7: for a document D parsed from well-formed text, parsing the lines the
\* serializer writes for D gives D again: the same sections, comments and
\* keys in the same order.
C7_RoundTrip ==
    (last.op = "Load" /\ last.ret = TRUE /\ WellFormed(last.args[2].lines))
    => Parse(Serialize(m_Sections)) = m_Sections

\* C8: a Load of a file that cannot be read returns false and leaves the
\* sections, keys, comments, file name and dirty flag as they were.
C8_FailedLoadChangesNothing ==
    (last.op = "Load" /\ ~last.args[2].ok) => (last.ret = FALSE /\ This = Was)

\* Load failed on a dirty document that holds a section
C8_Witness ==
    /\ last.op = "Load"
    /\ last.ret = FALSE
    /\ m_bDirty
    /\ m_Sections # <<>>

Getters == {"GetValue", "GetString", "GetFloat", "GetInt", "GetBool"}

\* the key K is in the global section and no section is named S
GlobalOnly(this, szKey, szSection) ==
    /\ GetSection(this, szSection) = NULL
    /\ GetSection(this, <<>>) # NULL
    /\ FindKey(this.m_Sections[GetSection(this, <<>>)].Keys, szKey) # NULL

\* what the getter op makes of the value szValue
Typed(op, szValue) ==
    CASE op = "GetFloat" -> StrToFloat(szValue)
      [] op = "GetInt"   -> StrToInt(szValue)
      [] op = "GetBool"  -> StrToBool(szValue)
      [] OTHER           -> szValue

\* C9 as stated: a getter called with a section name that matches no section
\* falls back to the global section: when the global section holds the key,
\* the getter returns the global section's value for it.
C9_FallsBackToGlobal ==
    (last.op \in Getters /\ GlobalOnly(This, last.args[1], last.args[2]))
    => last.ret = Typed(last.op,
            This.m_Sections[GetSection(This, <<>>)]
                .Keys[FindKey(This.m_Sections[GetSection(This, <<>>)].Keys,
                              last.args[1])].szValue)

\* C9 as amended: a getter called with a section name that matches no section
\* does not fail and returns its default (the empty string, 0.0, 0, false),
\* whether or not the global section holds the key.
C9_UnmatchedSectionGivesDefault ==
    (last.op \in Getters /\ GetSection(This, last.args[2]) = NULL)
    => last.ret = Typed(last.op, <<>>)

\* GetInt was called with the name of no section for a key the global
\* section holds
C9_Witness ==
    /\ last.op = "GetInt"
    /\ GlobalOnly(This, last.args[1], last.args[2])
    /\ GetInt(This, last.args[1], <<>>) = 1

\* the call made last, made on the object as it was but with the flags f
Replay(f) ==
    LET was == [Was EXCEPT !.m_Flags = f]
    IN  CASE last.op = "CreateKey" ->
               CreateKey(was, last.args[1], last.args[2], last.args[3], last.args[4])
          [] last.op = "CreateSection" ->
               CreateSection(was, last.args[1], last.args[2])
          [] last.op = "CreateSectionKeys" ->
               CreateSectionKeys(was, last.args[1], last.args[2], last.args[3])

\* the call made last gives under the flags f what it gave
SameUnder(f) ==
    /\ Replay(f).ret = last.ret
    /\ Replay(f).this.m_Sections = m_Sections
    /\ Replay(f).this.m_bDirty = m_bDirty

\* C10 as stated: CreateKey and CreateSection give the same return value and
\* the same document under all four settings of the flags, and with no flag
\* set CreateSection adds a missing section and CreateKey adds a missing key
\* and returns true.
C10_CreateBypassesFlags ==
    (last.op \in {"CreateKey", "CreateSection", "CreateSectionKeys"})
    => /\ \A f \in FlagSettings : SameUnder(f)
       /\ (last.op # "CreateKey" /\ Was.m_Flags = 0)
            => (last.ret = TRUE /\ GetSection(This, last.args[1]) # NULL)
       /\ (last.op = "CreateKey" /\ Was.m_Flags = 0)
            => (last.ret = TRUE /\ GetKey(This, last.args[1], last.args[4]) # NoKey)

\* C10 as amended: CreateSection gives the same return value and document
\* under all four settings of the flags and adds a missing section; CreateKey
\* gives the same under both settings of AUTOCREATE_KEYS, and in a section
\* that exists it adds a missing key and returns true under all four
\* settings; in a section that does not exist it creates the section and the
\* key only if AUTOCREATE_SECTIONS is set, and otherwise returns false and
\* changes nothing.
C10_CreateBypassesKeyFlag ==
    /\ last.op \in {"CreateSection", "CreateSectionKeys"}
         => /\ \A f \in FlagSettings : SameUnder(f)
            /\ last.ret = TRUE
            /\ GetSection(This, last.args[1]) # NULL
    /\ last.op = "CreateKey"
         => /\ \A f \in FlagSettings :
                  HasFlag(f, AUTOCREATE_SECTIONS)
                      = HasFlag(Was.m_Flags, AUTOCREATE_SECTIONS)
                  => SameUnder(f)
            /\ GetSection(Was, last.args[4]) # NULL
                 => /\ \A f \in FlagSettings : SameUnder(f)
                    /\ last.ret = TRUE
                    /\ GetKey(This, last.args[1], last.args[4]) # NoKey
            /\ GetSection(Was, last.args[4]) = NULL
                 => IF HasFlag(Was.m_Flags, AUTOCREATE_SECTIONS)
                    THEN /\ last.ret = TRUE
                         /\ GetKey(This, last.args[1], last.args[4]) # NoKey
                    ELSE last.ret = FALSE /\ This = Was

\* with no flag set, CreateKey added a key that was missing from a section
\* that was there
C10_Witness ==
    /\ last.op = "CreateKey"
    /\ Was.m_Flags = 0
    /\ GetSection(Was, last.args[4]) # NULL
    /\ GetKey(Was, last.args[1], last.args[4]) = NoKey
    /\ last.ret = TRUE
    /\ KeyCount(This) = KeyCount(Was) + 1

\* the sections of the object whose name is szSection, whatever the case
Named(this, szSection) ==
    {i \in DOMAIN this.m_Sections : SameName(this.m_Sections[i].szName, szSection)}

\* C11: CreateSection (either overload) of a name that a section of the
\* document already bears, in any case, returns true and leaves the document
\* as it was: one section of that name, its keys, comment and position
\* unchanged. Called on a document without the name, it leaves one section of
\* that name, and so does calling it once more.
C11_CreateSectionIdempotent ==
    (last.op \in {"CreateSection", "CreateSectionKeys"})
    => /\ last.ret = TRUE
       /\ Cardinality(Named(This, last.args[1])) = 1
       /\ Named(Was, last.args[1]) # {}
            => /\ m_Sections = Was.m_Sections
               /\ m_bDirty = Was.m_bDirty
       /\ LET again == IF last.op = "CreateSection"
                       THEN CreateSection(This, last.args[1], last.args[2])
                       ELSE CreateSectionKeys(This, last.args[1], last.args[2],
                                              last.args[3])
          IN  /\ again.ret = TRUE
              /\ again.this.m_Sections = m_Sections
              /\ Cardinality(Named(again.this, last.args[1])) = 1

\* CreateSection was called with keys and a comment for a name that, in
\* another case, a section holding a key already bore
C11_Witness ==
    /\ last.op = "CreateSectionKeys"
    /\ last.ret = TRUE
    /\ Named(Was, last.args[1]) # {}
    /\ \E i \in Named(Was, last.args[1]) :
            /\ Was.m_Sections[i].szName # last.args[1]
            /\ Was.m_Sections[i].Keys # <<>>
            /\ Was.m_Sections[i].Keys # last.args[3]
            /\ Was.m_Sections[i].szComment # last.args[2]

\* the lowercase letter of each uppercase letter
LowerOf ==
    [ch \in {UpperCase[i] : i \in DOMAIN UpperCase} |->
        LowerCase[CHOOSE i \in DOMAIN UpperCase : UpperCase[i] = ch]]

ToLower(ch) == IF ch \in DOMAIN LowerOf THEN LowerOf[ch] ELSE ch

\* the string written in every mix of upper and lower case
RECURSIVE Variants(_)
Variants(str) ==
    IF str = <<>> THEN {<<>>}
    ELSE {<<c>> \o v : c \in {ToUpper(Head(str)), ToLower(Head(str))},
                       v \in Variants(Tail(str))}

\* where the calls that look something up take the name of the key and the
\* name of the section (0: the call takes none)
KeyAt(op) ==
    IF op \in Getters \cup SetOps \cup {"SetKeyComment", "DeleteKey"} THEN 1 ELSE 0

SectionAt(op) ==
    CASE op \in Getters \cup {"DeleteKey"} -> 2
      [] op \in SetOps                     -> 4
      [] op = "SetKeyComment"              -> 3
      [] op \in {"CheckSectionName", "SetSectionComment", "DeleteSection"} -> 1
      [] OTHER -> 0

\* the call op made on the object this with the arguments a
CallWith(this, op, a) ==
    CASE op = "GetValue"  -> Result(this, GetValue(this, a[1], a[2]))
      [] op = "GetString" -> Result(this, GetString(this, a[1], a[2]))
      [] op = "GetFloat"  -> Result(this, GetFloat(this, a[1], a[2]))
      [] op = "GetInt"    -> Result(this, GetInt(this, a[1], a[2]))
      [] op = "GetBool"   -> Result(this, GetBool(this, a[1], a[2]))
      [] op = "CheckSectionName" -> Result(this, CheckSectionName(this, a[1]))
      [] op = "SetValue"  -> SetValue(this, a[1], a[2], a[3], a[4])
      [] op = "SetFloat"  -> SetFloat(this, a[1], a[2], a[3], a[4])
      [] op = "SetInt"    -> SetInt(this, a[1], a[2], a[3], a[4])
      [] op = "SetBool"   -> SetBool(this, a[1], a[2], a[3], a[4])
      [] op = "SetKeyComment"     -> SetKeyComment(this, a[1], a[2], a[3])
      [] op = "SetSectionComment" -> SetSectionComment(this, a[1], a[2])
      [] op = "DeleteKey"     -> DeleteKey(this, a[1], a[2])
      [] op = "DeleteSection" -> DeleteSection(this, a[1])

\* the arguments of the last call with the name of the key written k and the
\* name of the section written s
Respelt(k, s) ==
    [i \in DOMAIN last.args |->
        IF i = KeyAt(last.op) THEN k
        ELSE IF i = SectionAt(last.op) THEN s
        ELSE last.args[i]]

\* the key the last call was about, NoKey when it took none or found none
Sought ==
    IF KeyAt(last.op) = 0 THEN NoKey
    ELSE GetKey(Was, last.args[KeyAt(last.op)], last.args[SectionAt(last.op)])

\* C12: lookup is case-insensitive for section and key names: a getter,
\* CheckSectionName, Set*, Delete* or comment setter called with the names
\* written in any other case finds the same section and the same key and
\* returns the same; where what it sought was there, it leaves the same
\* document.
C12_LookupIgnoresCase ==
    (SectionAt(last.op) # 0)
    => LET was    == Was
           sought == Sought
           found  == GetSection(was, last.args[SectionAt(last.op)])
           keyed  == KeyAt(last.op) # 0
       IN  \A s \in Variants(last.args[SectionAt(last.op)]) :
             /\ GetSection(was, s) = found
             /\ \A k \in (IF keyed THEN Variants(last.args[KeyAt(last.op)])
                                   ELSE {<<>>}) :
                  LET r == CallWith(was, last.op, Respelt(k, s))
                  IN  /\ keyed => GetKey(was, k, s) = sought
                      /\ r.ret = last.ret
                      /\ (IF keyed THEN sought # NoKey ELSE found # NULL)
                           => r.this = This

\* GetValue found a value for a key and a section both named in another case
\* than they are stored in
C12_Witness ==
    /\ last.op = "GetValue"
    /\ last.ret # <<>>
    /\ Sought # NoKey
    /\ Was.m_Sections[Sought[1]].szName # last.args[2]
    /\ Was.m_Sections[Sought[1]].Keys[Sought[2]].szKey # last.args[1]

\* C13: a getter never fails: when the requested key cannot be found it
\* returns its default, GetValue and GetString the empty string, GetInt 0,
\* GetFloat 0.0 and GetBool false, on every document and for every key and
\* section asked for, and the object is as it was.
C13_GettersDefault ==
    (last.op \in Getters /\ GetKey(Was, last.args[1], last.args[2]) = NoKey)
    => /\ last.op \in {"GetValue", "GetString"} => last.ret = <<>>
       /\ last.op \in {"GetInt", "GetFloat"} => last.ret = 0
       /\ last.op = "GetBool" => last.ret = FALSE
       /\ This = Was

\* GetFloat was asked for a key missing from a section that is there, in a
\* document that holds keys
C13_Witness ==
    /\ last.op = "GetFloat"
    /\ GetSection(Was, last.args[2]) # NULL
    /\ GetKey(Was, last.args[1], last.args[2]) = NoKey
    /\ KeyCount(Was) > 0
    /\ last.ret = 0

\* the string the Set* call op stores for the value v
Stored(op, v) ==
    CASE op = "SetFloat" -> FloatToStr(v)
      [] op = "SetInt"   -> IntToStr(v)
      [] op = "SetBool"  -> BoolToStr(v)
      [] OTHER           -> v

\* C14: a Set* call on a key that exists returns true and overwrites the
\* key's value in place; it overwrites the key's comment only when the
\* comment passed is not empty; the key keeps its name and its position, and
\* the other keys of its section and all other sections are as they were.
C14_SetOverwritesInPlace ==
    (last.op \in SetOps /\ Sought # NoKey)
    => /\ last.ret = TRUE
       /\ m_Sections =
            [Was.m_Sections EXCEPT
               ![Sought[1]].Keys[Sought[2]].szValue = Stored(last.op, last.args[2]),
               ![Sought[1]].Keys[Sought[2]].szComment =
                    IF last.args[3] = <<>> THEN @ ELSE last.args[3]]

\* SetValue, passed no comment, gave a new value to the second key of a
\* section, a key that bears a comment
C14_Witness ==
    /\ last.op = "SetValue"
    /\ last.args[3] = <<>>
    /\ Sought # NoKey
    /\ Sought[2] = 2
    /\ Was.m_Sections[Sought[1]].Keys[2].szComment # <<>>
    /\ Was.m_Sections[Sought[1]].Keys[2].szValue # last.args[2]
    /\ m_Sections[Sought[1]].Keys[2].szValue = last.args[2]
    /\ m_Sections[Sought[1]].Keys[2].szComment # <<>>

\* the parser after the lines the last Load read
Parsed == ParseFrom(ParseStart, last.args[2].lines)

\* the line is a section header; the name it gives
IsHeader(szRaw) == IsSectionLine(Trim(szRaw))

HeaderName(szRaw) == Trim(Sub(Trim(szRaw), 2, Len(Trim(szRaw)) - 1))

\* the line is an assignment; the key name and the value it gives
IsAssignment(szRaw) ==
    /\ Trim(szRaw) # <<>>
    /\ ~IsCommentLine(Trim(szRaw))
    /\ ~IsHeader(szRaw)
    /\ FindFirstOf(Trim(szRaw), EqualIndicators) # 0

AssignedKey(szRaw) ==
    Trim(Sub(Trim(szRaw), 1, FindFirstOf(Trim(szRaw), EqualIndicators) - 1))

AssignedValue(szRaw) ==
    Trim(Sub(Trim(szRaw), FindFirstOf(Trim(szRaw), EqualIndicators) + 1,
             Len(Trim(szRaw))))

\* the section headers and the assignments among the lines a file may hold
Headers == {h \in Lines : IsHeader(h)}

Assignments == {a \in Lines : IsAssignment(a)}

\* the keys of the list whose name is szKey, whatever the case
KeysNamed(Keys, szKey) == {i \in DOMAIN Keys : SameName(Keys[i].szKey, szKey)}

\* C15: when the parser, after any lines, meets a section header whose name
\* matches, whatever the case, a section that exists, it adds no section,
\* leaves every section and its comment as they were, makes the first
\* section of that name the current one and clears the pending comment: an
\* assignment that follows lands in that section and bears no comment.
C15_RepeatedHeader ==
    (last.op = "Load" /\ last.ret = TRUE)
    => LET st == Parsed
       IN  /\ m_Sections = st.m_Sections
           /\ \A h \in Headers :
                Named(st, HeaderName(h)) # {}
                => LET post == ParseLine(st, h)
                   IN  /\ post.m_Sections = st.m_Sections
                       /\ post.pSection = Min(Named(st, HeaderName(h)))
                       /\ post.szComment = <<>>
                       /\ \A a \in Assignments :
                            LET then == ParseLine(post, a).m_Sections
                                keys == then[post.pSection].Keys
                            IN  /\ Len(then) = Len(st.m_Sections)
                                /\ \A i \in DOMAIN then :
                                     /\ then[i].szName = st.m_Sections[i].szName
                                     /\ then[i].szComment = st.m_Sections[i].szComment
                                     /\ i # post.pSection
                                          => then[i] = st.m_Sections[i]
                                /\ \E k \in KeysNamed(keys, AssignedKey(a)) :
                                     /\ keys[k].szValue = AssignedValue(a)
                                     /\ keys[k].szComment = <<>>

\* the file read named a section, then gave a comment, then named the
\* section again in another case: the document holds the one section,
\* without a comment
C15_Witness ==
    /\ last.op = "Load"
    /\ last.ret = TRUE
    /\ Len(last.args[2].lines) = 3
    /\ IsHeader(last.args[2].lines[1])
    /\ IsCommentLine(Trim(last.args[2].lines[2]))
    /\ CommentText(Trim(last.args[2].lines[2])) # <<>>
    /\ IsHeader(last.args[2].lines[3])
    /\ HeaderName(last.args[2].lines[1]) # HeaderName(last.args[2].lines[3])
    /\ Len(m_Sections) = 1
    /\ m_Sections[1].szComment = <<>>

\* no section holds two keys whose names are equal whatever the case
KeysUnique(secs) ==
    \A i \in DOMAIN secs :
        \A a, b \in DOMAIN secs[i].Keys :
            a # b => ~SameName(secs[i].Keys[a].szKey, secs[i].Keys[b].szKey)

\* C16: after parsing any lines no section holds two keys of the same
\* case-insensitive name; and when the parser then meets an assignment to a
\* name that a key of the current section bears, whatever the case, it gives
\* that key the value and the pending comment, empty or not, and nothing
\* else changes: the key keeps its name and position, no key is added.
C16_AssignmentOverwrites ==
    (last.op = "Load" /\ last.ret = TRUE)
    => LET st == Parsed
       IN  /\ KeysUnique(m_Sections)
           /\ \A a \in Assignments :
                (/\ st.pSection # NULL
                 /\ KeysNamed(st.m_Sections[st.pSection].Keys, AssignedKey(a)) # {})
                => LET cur == st.pSection
                       k   == Min(KeysNamed(st.m_Sections[cur].Keys, AssignedKey(a)))
                       fin == ParseLine(st, a)
                   IN  /\ fin.m_Sections =
                            [st.m_Sections EXCEPT
                               ![cur].Keys[k].szValue = AssignedValue(a),
                               ![cur].Keys[k].szComment = st.szComment]
                       /\ fin.szComment = <<>>
                       /\ fin.pSection = cur
                       /\ KeysUnique(fin.m_Sections)

\* the file read gave a comment, assigned a key and assigned it again under
\* its name in another case: the document holds the one key, under its first
\* name, with the second value and no comment
C16_Witness ==
    /\ last.op = "Load"
    /\ last.ret = TRUE
    /\ Len(last.args[2].lines) = 3
    /\ IsCommentLine(Trim(last.args[2].lines[1]))
    /\ CommentText(Trim(last.args[2].lines[1])) # <<>>
    /\ IsAssignment(last.args[2].lines[2])
    /\ IsAssignment(last.args[2].lines[3])
    /\ AssignedKey(last.args[2].lines[2]) # AssignedKey(last.args[2].lines[3])
    /\ AssignedValue(last.args[2].lines[2]) # AssignedValue(last.args[2].lines[3])
    /\ KeyCount(This) = 1
    /\ m_Sections[1].Keys[1] =
            NewKey(AssignedKey(last.args[2].lines[2]),
                   AssignedValue(last.args[2].lines[3]), <<>>)

\* the line is malformed: not empty, no comment, no section header, and
\* without an assignment indicator
Malformed(szRaw) ==
    /\ Trim(szRaw) # <<>>
    /\ ~IsCommentLine(Trim(szRaw))
    /\ ~IsHeader(szRaw)
    /\ FindFirstOf(Trim(szRaw), EqualIndicators) = 0

\* C17: the parser never aborts: a Load of a file that can be read returns
\* true whatever the lines, and a malformed line changes neither the
\* document nor the pending comment nor the current section, so the lines
\* without it give the same document.
C17_MalformedLineIgnored ==
    (last.op = "Load" /\ last.args[2].ok)
    => /\ last.ret = TRUE
       /\ m_Sections = Parse(last.args[2].lines)
       /\ \A i \in DOMAIN last.args[2].lines :
            Malformed(last.args[2].lines[i])
            => Parse(RemoveAt(last.args[2].lines, i)) = m_Sections
       /\ LET st == Parsed
          IN  \A m \in Lines : Malformed(m) => ParseLine(st, m) = st

\* the file read gave a comment, then a malformed line, then an assignment:
\* the key bears the comment
C17_Witness ==
    /\ last.op = "Load"
    /\ last.ret = TRUE
    /\ Len(last.args[2].lines) = 3
    /\ IsCommentLine(Trim(last.args[2].lines[1]))
    /\ Malformed(last.args[2].lines[2])
    /\ IsAssignment(last.args[2].lines[3])
    /\ KeyCount(This) = 1
    /\ m_Sections[1].Keys[1].szComment # <<>>
    /\ m_Sections[1].Keys[1].szComment = CommentText(Trim(last.args[2].lines[1]))

\* the sequence seq without its element at position p, the others in order
Without(seq, p) ==
    [i \in 1..(Len(seq) - 1) |-> IF i < p THEN seq[i] ELSE seq[i + 1]]

\* C18: DeleteKey and DeleteSection remove the first key, or section, whose
\* name matches whatever the case, and return true; every other key and
\* section is as it was and in the same order. When none matches they return
\* false and the document and the dirty flag are as they were.
C18_DeleteFirstMatch ==
    /\ last.op = "DeleteSection"
         => IF Named(Was, last.args[1]) = {}
            THEN last.ret = FALSE /\ This = Was
            ELSE /\ last.ret = TRUE
                 /\ m_Sections = Without(Was.m_Sections, Min(Named(Was, last.args[1])))
    /\ last.op = "DeleteKey"
         => LET secs == Named(Was, last.args[2])
                keys == IF secs = {} THEN {}
                        ELSE KeysNamed(Was.m_Sections[Min(secs)].Keys, last.args[1])
            IN  IF keys = {}
                THEN last.ret = FALSE /\ This = Was
                ELSE /\ last.ret = TRUE
                     /\ m_Sections =
                          [Was.m_Sections EXCEPT
                             ![Min(secs)].Keys = Without(@, Min(keys))]

\* DeleteKey was called on a section holding two keys of that name, in a
\* document of two sections: the second of the two keys is left
C18_Witness ==
    /\ last.op = "DeleteKey"
    /\ last.ret = TRUE
    /\ Len(Was.m_Sections) = 2
    /\ \E i \in Named(Was, last.args[2]) :
            /\ Cardinality(KeysNamed(Was.m_Sections[i].Keys, last.args[1])) = 2
            /\ m_Sections[i].Keys = <<Was.m_Sections[i].Keys[2]>>

\* C19: for a document reached from the empty one by CreateSection,
\* CreateKey, Set* (both flags set), Delete* and comment setter calls, parsing
\* the lines the serializer writes gives the same sections in the same
\* order, with the same keys, values and comments.
C19_ApiRoundTrip == Parse(Serialize(m_Sections)) = m_Sections

====
